---- MODULE Spec2Model ----
(***************************************************************************)
(* Model of the Idea Box block tool (src/src/index.js): the widget object  *)
(* built by the constructor, the DOM elements render() creates, and the    *)
(* record save() extracts from an element.                                 *)
(*                                                                         *)
(* JavaScript values are tagged records.  A string is a sequence of        *)
(* lexical tokens, so that the empty string is << >> and markup can be     *)
(* parsed token by token.  The DOM content of an element is the preorder   *)
(* sequence of its nodes (open, text, close).                              *)
(***************************************************************************)
EXTENDS Integers, Sequences, FiniteSets, TLC

VARIABLES status, this, objs, elems, last, returned

vars == <<status, this, objs, elems, last, returned>>

(***************************************************************************)
(* Bounds of the model.                                                    *)
(***************************************************************************)
\* longest markup string (in tokens) the host passes as a data field
MaxLen == 3
\* most elements the host keeps alive at once
MaxElems == 2

(***************************************************************************)
(* JavaScript values.                                                      *)
(***************************************************************************)
Undefined == [t |-> "undefined"]
Num(n) == [t |-> "number", n |-> n]
Str(s) == [t |-> "string", s |-> s]
Bool(b) == [t |-> "boolean", b |-> b]
Ref(i) == [t |-> "object", ref |-> i]

\* ToBoolean: undefined, 0, "" and false are falsy
Truthy(v) ==
    CASE v.t = "undefined" -> FALSE
      [] v.t = "number" -> v.n # 0
      [] v.t = "string" -> v.s # << >>
      [] v.t = "boolean" -> v.b
      [] OTHER -> TRUE

\* a || b
Or(a, b) == IF Truthy(a) THEN a ELSE b

\* !a
Not(a) == Bool(~Truthy(a))

\* String(v), as applied by the DOM string setters (the numbers are 0 and 7)
JSString(v) ==
    CASE v.t = "string" -> v.s
      [] v.t = "number" -> <<IF v.n = 0 THEN "0" ELSE "7">>
      [] v.t = "boolean" -> IF v.b THEN <<"true">> ELSE <<"false">>
      [] OTHER -> <<"undefined">>

\* o.name where o is an object literal (a TLA+ record) or undefined;
\* reading a property of undefined is the TypeError the callers test for
HasProps(o) == o.t = "object"
Get(o, name) == IF name \in DOMAIN o.props THEN o.props[name] ELSE Undefined
Obj(props) == [t |-> "object", props |-> props]

(***************************************************************************)
(* Constants of the class.                                                 *)
(***************************************************************************)
DEFAULT_TITLE_PLACEHOLDER == Str(<<"Title">>)
DEFAULT_MESSAGE_PLACEHOLDER == Str(<<"Message">>)
WrapperClass == "cdx-idea"
TitleClass == "cdx-idea__title"
MessageClass == "cdx-idea__message"

\* get CSS()
CSS(self) ==
    [baseClass |-> self.api.props.styles.block,
     wrapper |-> WrapperClass,
     title |-> TitleClass,
     input |-> self.api.props.styles.input,
     message |-> MessageClass]

(***************************************************************************)
(* Markup and the DOM.  A markup string is a sequence of the tokens below; *)
(* assigning it to innerHTML parses it into nodes, and reading innerHTML   *)
(* serialises the nodes again.                                             *)
(***************************************************************************)
CloseTag == "</span>"
OpenTag(cls) ==
    CASE cls = "" -> "<span>"
      [] cls = TitleClass -> "<span class=\"cdx-idea__title\">"
      [] cls = MessageClass -> "<span class=\"cdx-idea__message\">"
TagClasses == {"", TitleClass, MessageClass}
OpenTags == {OpenTag(c) : c \in TagClasses}
ClassOf(tok) == CHOOSE c \in TagClasses : OpenTag(c) = tok
\* "&" is a bare ampersand, "&amp;" the character reference for it
MarkupTokens == {"a", "&", "&amp;", CloseTag} \cup OpenTags

TextNode(ch) == [k |-> "text", v |-> ch]
OpenNode(cls) == [k |-> "open", v |-> cls]
CloseNode == [k |-> "close", v |-> ""]

RECURSIVE ParseFrom(_, _, _)
\* The fragment parser at token i with depth open elements: an end tag with
\* no open element is dropped, and the end of input closes what is open.
ParseFrom(s, i, depth) ==
    IF i > Len(s) THEN [j \in 1..depth |-> CloseNode]
    ELSE IF s[i] \in OpenTags
         THEN <<OpenNode(ClassOf(s[i]))>> \o ParseFrom(s, i + 1, depth + 1)
    ELSE IF s[i] = CloseTag
         THEN IF depth > 0 THEN <<CloseNode>> \o ParseFrom(s, i + 1, depth - 1)
                           ELSE ParseFrom(s, i + 1, depth)
    ELSE IF s[i] \in {"&", "&amp;"}
         THEN <<TextNode("&")>> \o ParseFrom(s, i + 1, depth)
    ELSE <<TextNode(s[i])>> \o ParseFrom(s, i + 1, depth)

\* el.innerHTML = s
ParseHTML(s) == ParseFrom(s, 1, 0)

\* el.innerHTML read back: text is escaped, every element gets its end tag
SerializeNode(n) ==
    CASE n.k = "open" -> OpenTag(n.v)
      [] n.k = "close" -> CloseTag
      [] OTHER -> IF n.v = "&" THEN "&amp;" ELSE n.v
SerializeHTML(nodes) == [j \in 1..Len(nodes) |-> SerializeNode(nodes[j])]

(***************************************************************************)
(* Elements.  An element has a class list, the contentEditable state, the  *)
(* data-placeholder attribute, the nodes its innerHTML was parsed into,    *)
(* and the child elements appended to it.                                  *)
(***************************************************************************)
Null == [t |-> "null"]
NoAttributes == [a \in {} |-> Undefined]
Range(seq) == {seq[j] : j \in 1..Len(seq)}

\* document.createElement(tagName)
CreateElement(tagName) ==
    [tagName |-> tagName, classList |-> {}, contentEditable |-> "inherit",
     placeholder |-> Undefined, nodes |-> << >>, children |-> << >>]

\* el[attrName] = value, for the two attributes render() passes
SetAttribute(el, attrName, value) ==
    CASE attrName = "contentEditable" ->
             [el EXCEPT !.contentEditable = JSString(value)[1]]
      [] attrName = "innerHTML" ->
             [el EXCEPT !.nodes = ParseHTML(JSString(value))]

RECURSIVE SetAttributes(_, _, _)
SetAttributes(el, attributes, todo) ==
    IF todo = {} THEN el
    ELSE LET a == CHOOSE x \in todo : TRUE
         IN SetAttributes(SetAttribute(el, a, attributes[a]), attributes, todo \ {a})

\* _make(tagName, classNames, attributes), classNames an Array of class names
Make(tagName, classNames, attributes) ==
    SetAttributes([CreateElement(tagName) EXCEPT !.classList = Range(classNames)],
                  attributes, DOMAIN attributes)

\* mutant: the read-only flag passed on without the negation
EditableValueNotNegated(self) == Bool(Truthy(self.readOnly))

\* the value contentEditable is given in render()
EditableValue(self) == Not(self.readOnly)

\* mutant: the message markup put in the title region and the title in the message
RenderElementSwapped(self, record) ==
    LET container == Make("div", <<CSS(self).baseClass, CSS(self).wrapper>>, NoAttributes)
        title == Make("div", <<CSS(self).input, CSS(self).title>>,
                      [contentEditable |-> EditableValue(self), innerHTML |-> record.message])
        message == Make("div", <<CSS(self).input, CSS(self).message>>,
                        [contentEditable |-> EditableValue(self), innerHTML |-> record.title])
        title2 == [title EXCEPT !.placeholder = Str(JSString(self.titlePlaceholder))]
        message2 == [message EXCEPT !.placeholder = Str(JSString(self.messagePlaceholder))]
    IN [container EXCEPT !.children = <<title2, message2>>]

\* render(): the element it returns, given the widget and the stored record
RenderElement(self, record) ==
    LET container == Make("div", <<CSS(self).baseClass, CSS(self).wrapper>>, NoAttributes)
        title == Make("div", <<CSS(self).input, CSS(self).title>>,
                      [contentEditable |-> EditableValue(self), innerHTML |-> record.title])
        message == Make("div", <<CSS(self).input, CSS(self).message>>,
                        [contentEditable |-> EditableValue(self), innerHTML |-> record.message])
        title2 == [title EXCEPT !.placeholder = Str(JSString(self.titlePlaceholder))]
        message2 == [message EXCEPT !.placeholder = Str(JSString(self.messagePlaceholder))]
    IN [container EXCEPT !.children = <<title2, message2>>]

\* mutant: el.textContent, the text without the markup
TextContent(el) ==
    LET text == SelectSeq(el.nodes, LAMBDA n : n.k = "text")
    IN Str([j \in 1..Len(text) |-> text[j].v])

\* el.innerHTML
InnerHTML(el) == Str(SerializeHTML(el.nodes))

\* the first node of nodes that opens an element of class cls, or 0
FirstOpen(nodes, cls) ==
    LET hits == {j \in 1..Len(nodes) : nodes[j] = OpenNode(cls)}
    IN IF hits = {} THEN 0 ELSE CHOOSE j \in hits : \A h \in hits : j <= h

\* the close node matching the open node at i
Opens(nodes, i, j) == Cardinality({h \in i..j : nodes[h].k = "open"})
Closes(nodes, i, j) == Cardinality({h \in i..j : nodes[h].k = "close"})
MatchingClose(nodes, i) ==
    CHOOSE j \in (i + 1)..Len(nodes) :
        /\ Opens(nodes, i, j) = Closes(nodes, i, j)
        /\ \A h \in (i + 1)..(j - 1) : Opens(nodes, i, h) # Closes(nodes, i, h)

\* the element opened at node i, as an element of its own
ElementAt(nodes, i) ==
    [CreateElement("span") EXCEPT
        !.classList = IF nodes[i].v = "" THEN {} ELSE {nodes[i].v},
        !.nodes = SubSeq(nodes, i + 1, MatchingClose(nodes, i) - 1)]

RECURSIVE QueryFrom(_, _, _)
\* descendants in document order: each child, then what is inside it
QueryFrom(children, c, cls) ==
    IF c > Len(children) THEN Null
    ELSE IF cls \in children[c].classList THEN children[c]
    ELSE IF FirstOpen(children[c].nodes, cls) > 0
         THEN ElementAt(children[c].nodes, FirstOpen(children[c].nodes, cls))
    ELSE QueryFrom(children, c + 1, cls)

\* el.querySelector(`.${cls}`): the first descendant of el carrying cls
QuerySelector(el, cls) == QueryFrom(el.children, 1, cls)

(***************************************************************************)
(* The constructor.                                                        *)
(***************************************************************************)
EmptyString == Str(<< >>)

\* mutant: both placeholders resolved from config.titlePlaceholder
ResolvePlaceholderShared(config, name, default) ==
    Or(Get(config, "titlePlaceholder"), default)

\* config.titlePlaceholder || Idea.DEFAULT_TITLE_PLACEHOLDER (and the message one)
ResolvePlaceholder(config, name, default) == Or(Get(config, name), default)

\* mutant: the field is stored as given, with no default
NormalizeFieldNoDefault(data, name) == Get(data, name)

\* data.title || '' (and the message one)
NormalizeField(data, name) == Or(Get(data, name), EmptyString)

\* the widget before the constructor has assigned anything
Unassigned ==
    [api |-> Undefined, readOnly |-> Undefined, titlePlaceholder |-> Undefined,
     messagePlaceholder |-> Undefined, data |-> Undefined]

\* mutant: the constructor also reads a property of data.title
ConstructorThrowsOnMissingTitle(args) ==
    \/ ~HasProps(Get(args, "config"))
    \/ ~HasProps(Get(args, "data"))
    \/ Get(Get(args, "data"), "title") = Undefined

\* the constructor reads a property of config, then of data
ConstructorThrows(args) ==
    ~HasProps(Get(args, "config")) \/ ~HasProps(Get(args, "data"))

\* the assignments the constructor has made when it returns or throws
Constructed(args, ref) ==
    LET config == Get(args, "config")
        data == Get(args, "data")
        s1 == [Unassigned EXCEPT !.api = Get(args, "api"),
                                 !.readOnly = Get(args, "readOnly")]
        s2 == [s1 EXCEPT
                 !.titlePlaceholder =
                     ResolvePlaceholder(config, "titlePlaceholder", DEFAULT_TITLE_PLACEHOLDER),
                 !.messagePlaceholder =
                     ResolvePlaceholder(config, "messagePlaceholder", DEFAULT_MESSAGE_PLACEHOLDER)]
    IN IF ~HasProps(config) THEN s1
       ELSE IF ~HasProps(data) THEN s2
       ELSE [s2 EXCEPT !.data = Ref(ref)]

\* the record literal the constructor stores in this.data
InitialRecord(data) ==
    [title |-> NormalizeField(data, "title"),
     message |-> NormalizeField(data, "message")]

(***************************************************************************)
(* save().                                                                 *)
(***************************************************************************)
\* Object.assign(target, source)
ObjectAssign(target, source) ==
    [k \in DOMAIN target \cup DOMAIN source |->
        IF k \in DOMAIN source THEN source[k] ELSE target[k]]

\* mutant: the record is copied, Object.assign({}, this.data, {...})
SaveResultCopy(self, heap, ideaElement) ==
    LET title == QuerySelector(ideaElement, CSS(self).title)
        message == QuerySelector(ideaElement, CSS(self).message)
    IN IF title = Null \/ message = Null
       THEN [out |-> "TypeError", heap |-> heap, ret |-> 0]
       ELSE [out |-> "ok",
             heap |-> Append(heap, ObjectAssign(heap[self.data.ref],
                                                [title |-> InnerHTML(title),
                                                 message |-> InnerHTML(message)])),
             ret |-> Len(heap) + 1]

\* mutant: a missing region is read as the empty string
SaveResultGuarded(self, heap, ideaElement) ==
    LET title == QuerySelector(ideaElement, CSS(self).title)
        message == QuerySelector(ideaElement, CSS(self).message)
        read(el) == IF el = Null THEN EmptyString ELSE InnerHTML(el)
    IN [out |-> "ok",
        heap |-> [heap EXCEPT ![self.data.ref] =
                     ObjectAssign(@, [title |-> read(title), message |-> read(message)])],
        ret |-> self.data.ref]

\* mutant: this.data.title is assigned before the message region is read
SaveResultPartial(self, heap, ideaElement) ==
    LET title == QuerySelector(ideaElement, CSS(self).title)
        message == QuerySelector(ideaElement, CSS(self).message)
        heap1 == IF title = Null THEN heap
                 ELSE [heap EXCEPT ![self.data.ref].title = InnerHTML(title)]
    IN IF title = Null \/ message = Null
       THEN [out |-> "TypeError", heap |-> heap1, ret |-> 0]
       ELSE [out |-> "ok",
             heap |-> [heap1 EXCEPT ![self.data.ref].message = InnerHTML(message)],
             ret |-> self.data.ref]

\* save(ideaElement) on heap: the outcome, the heap after it, the reference
\* returned.  Both innerHTML reads come before Object.assign is called.
SaveResult(self, heap, ideaElement) ==
    LET title == QuerySelector(ideaElement, CSS(self).title)
        message == QuerySelector(ideaElement, CSS(self).message)
    IN IF title = Null \/ message = Null
       THEN [out |-> "TypeError", heap |-> heap, ret |-> 0]
       ELSE [out |-> "ok",
             heap |-> [heap EXCEPT ![self.data.ref] =
                          ObjectAssign(@, [title |-> InnerHTML(title),
                                           message |-> InnerHTML(message)])],
             ret |-> self.data.ref]

\* mutant: the element is built once and returned again by later calls
RenderResultCached(self, heap, live) ==
    IF live = << >>
    THEN [live |-> <<RenderElement(self, heap[self.data.ref])>>, ret |-> 1]
    ELSE [live |-> live, ret |-> 1]

\* render(): the list of live elements after the call and the element returned
RenderResult(self, heap, live) ==
    [live |-> Append(live, RenderElement(self, heap[self.data.ref])),
     ret |-> Len(live) + 1]

(***************************************************************************)
(* State: status of the widget object, its fields (this), the heap of      *)
(* records (objs), the elements alive in the document (elems), the last    *)
(* call and its outcome (last), and the references save() has returned.    *)
(***************************************************************************)
Call(op, out, arg, ret) == [op |-> op, out |-> out, arg |-> arg, ret |-> ret]

Init ==
    /\ status = "new"
    /\ this = Unassigned
    /\ objs = << >>
    /\ elems = << >>
    /\ last = Call("none", "ok", 0, 0)
    /\ returned = {}

\* new Idea(args)
Construct(args) ==
    /\ status = "new"
    /\ this' = Constructed(args, Len(objs) + 1)
    /\ IF ConstructorThrows(args)
       THEN /\ status' = "threw"
            /\ objs' = objs
            /\ last' = Call("construct", "TypeError", 0, 0)
       ELSE /\ status' = "ready"
            /\ objs' = Append(objs, InitialRecord(Get(args, "data")))
            /\ last' = Call("construct", "ok", 0, 0)
    /\ UNCHANGED <<elems, returned>>

\* widget.render(); the host keeps the element
Render ==
    /\ status = "ready"
    /\ Len(elems) < MaxElems
    /\ LET r == RenderResult(this, objs, elems)
       IN /\ elems' = r.live
          /\ last' = Call("render", "ok", 0, r.ret)
    /\ UNCHANGED <<status, this, objs, returned>>

\* widget.save(elems[e])
Save(e) ==
    /\ status = "ready"
    /\ e \in 1..Len(elems)
    /\ LET r == SaveResult(this, objs, elems[e])
       IN /\ objs' = r.heap
          /\ last' = Call("save", r.out, e, r.ret)
          /\ returned' = IF r.out = "ok" THEN returned \cup {r.ret} ELSE returned
    /\ UNCHANGED <<status, this, elems>>

\* the user types in region c of element e, replacing its content
Edit(e, c, nodes) ==
    /\ e \in 1..Len(elems)
    /\ c \in 1..Len(elems[e].children)
    /\ elems[e].children[c].nodes # nodes
    /\ elems' = [elems EXCEPT ![e].children[c].nodes = nodes]
    /\ last' = Call("edit", "ok", 0, 0)
    /\ UNCHANGED <<status, this, objs, returned>>

\* the host removes region c of element e from the element
Detach(e, c) ==
    /\ e \in 1..Len(elems)
    /\ c \in 1..Len(elems[e].children)
    /\ elems' = [elems EXCEPT ![e].children =
                    SubSeq(@, 1, c - 1) \o SubSeq(@, c + 1, Len(@))]
    /\ last' = Call("detach", "ok", 0, 0)
    /\ UNCHANGED <<status, this, objs, returned>>

(***************************************************************************)
(* What the host passes.                                                   *)
(***************************************************************************)
\* records over a set of field names, each field present or absent
Partial(names, values) ==
    UNION {[D -> values] : D \in SUBSET names}

Strings(alphabet, n) == UNION {[1..m -> alphabet] : m \in 0..n}

HostApi == Obj([styles |-> [block |-> "cdx-block", input |-> "cdx-input"]])
\* a host whose input style token is the message marker itself
ClashApi == Obj([styles |-> [block |-> "cdx-block", input |-> MessageClass]])

Args(data, config, api, readOnly) ==
    Obj([data |-> data, config |-> config, api |-> api, readOnly |-> readOnly])

ReadOnlyValues == {Bool(TRUE), Bool(FALSE), Undefined}

\* field values of any type, data and config given or not
WideFields == {Num(0), Num(7), EmptyString, Str(<<"a">>)}
WidePlaceholders == {EmptyString, Str(<<"Custom">>)}
WideData == {Undefined} \cup {Obj(f) : f \in Partial({"title", "message"}, WideFields)}
WideConfig ==
    {Undefined} \cup
    {Obj(f) : f \in Partial({"titlePlaceholder", "messagePlaceholder"}, WidePlaceholders)}
WideArgs ==
    {Args(d, c, a, r) : d \in WideData, c \in WideConfig, a \in {HostApi, ClashApi},
                        r \in ReadOnlyValues}

\* markup of up to MaxLen tokens in one field, short markup in the other
Markup == Strings(MarkupTokens, MaxLen)
ShortMarkup == {<< >>, <<"a">>, <<"&">>}
MarkupData ==
    {Obj([title |-> Str(t), message |-> Str(m)]) : t \in Markup, m \in ShortMarkup}
    \cup {Obj([title |-> Str(t), message |-> Str(m)]) : t \in ShortMarkup, m \in Markup}
MarkupArgs ==
    {Args(d, Obj(NoAttributes), a, Bool(FALSE)) : d \in MarkupData, a \in {HostApi, ClashApi}}

\* a document being edited: a few records, elements edited and taken apart
EditArgs ==
    {Args(Obj(NoAttributes), Obj(NoAttributes), HostApi, Undefined),
     Args(Obj([title |-> Str(<<"&">>), message |-> Str(<<"a">>)]),
          Obj([titlePlaceholder |-> Str(<<"Custom">>)]), HostApi, Bool(TRUE))}
EditNodes ==
    {<<TextNode("b")>>, <<OpenNode(MessageClass), TextNode("c"), CloseNode>>}

(***************************************************************************)
(* Specifications.                                                         *)
(***************************************************************************)
\* a document being edited
Next ==
    \/ status = "new" /\ \E args \in EditArgs : Construct(args)
    \/ Render
    \/ \E e \in 1..MaxElems : Save(e)
    \/ \E e \in 1..MaxElems, c \in 1..2, nodes \in EditNodes : Edit(e, c, nodes)
    \/ \E e \in 1..MaxElems, c \in 1..2 : Detach(e, c)

Spec == Init /\ [][Next]_vars

\* construction from whatever the host passes, then render and save
NextInputs ==
    \/ status = "new" /\ \E args \in WideArgs : Construct(args)
    \/ Render
    \/ \E e \in 1..MaxElems : Save(e)

SpecInputs == Init /\ [][NextInputs]_vars

\* construction from markup, then render and save
NextMarkup ==
    \/ status = "new" /\ \E args \in MarkupArgs : Construct(args)
    \/ Render
    \/ \E e \in 1..MaxElems : Save(e)

SpecMarkup == Init /\ [][NextMarkup]_vars

(***************************************************************************)
(* Properties.                                                             *)
(***************************************************************************)
Stored == objs[this.data.ref]
FieldNames == {"title", "message"}
IsString(v) == v.t = "string"
DataOf(args) == Get(args, "data")
ConfigOf(args) == Get(args, "config")

\* C1 as stated: in every state of a constructed widget the stored record has
\* a title and a message and each is a string.
C1_Original ==
    status = "ready" =>
        /\ DOMAIN Stored = FieldNames
        /\ \A name \in FieldNames : IsString(Stored[name])

\* C1 amended: the stored record always has both fields and neither is ever
\* undefined; a field absent from priorData (or falsy there) is stored as the
\* empty string and a string is stored as given; each field is a string unless
\* priorData held a truthy non-string value there, which is stored as given
\* and stays until the first successful save, after which both are strings.
C1_Amended ==
    [][/\ status' = "ready" =>
            /\ DOMAIN Stored' = FieldNames
            /\ \A name \in FieldNames : Stored'[name] # Undefined
            /\ returned' # {} => \A name \in FieldNames : IsString(Stored'[name])
       /\ \A args \in WideArgs :
            Construct(args) /\ status' = "ready" =>
                \A name \in FieldNames :
                    LET v == Get(DataOf(args), name)
                    IN /\ v \in {Undefined, Num(0)} => Stored'[name] = EmptyString
                       /\ IsString(v) => Stored'[name] = v
                       /\ IsString(Stored'[name]) \/ Stored'[name] = v]_vars

\* a widget just constructed whose record is {title: "", message: ""}
C1_Witness ==
    /\ status = "ready"
    /\ last.op = "construct"
    /\ Stored = [title |-> EmptyString, message |-> EmptyString]

\* C2 as stated: the constructor never throws.
C2_Original == status # "threw"

\* C2 amended: whenever data and config are each supplied as an object, which
\* may omit any field, the constructor completes without throwing and leaves
\* the api reference, the read-only flag, two non-empty placeholder strings
\* and a record with both fields stored; when data or config is not supplied
\* it throws a TypeError.
C2_Amended ==
    [][\A args \in WideArgs :
         Construct(args) =>
            IF HasProps(DataOf(args)) /\ HasProps(ConfigOf(args))
            THEN /\ status' = "ready"
                 /\ last'.out = "ok"
                 /\ this'.api = Get(args, "api")
                 /\ this'.readOnly = Get(args, "readOnly")
                 /\ IsString(this'.titlePlaceholder) /\ Truthy(this'.titlePlaceholder)
                 /\ IsString(this'.messagePlaceholder) /\ Truthy(this'.messagePlaceholder)
                 /\ this'.data = Ref(Len(objs'))
                 /\ DOMAIN Stored' = FieldNames
                 /\ \A name \in FieldNames : Stored'[name] # Undefined
            ELSE /\ status' = "threw"
                 /\ last'.out = "TypeError"
                 /\ objs' = objs]_vars

\* a widget constructed from arguments that omit fields: defaults everywhere
C2_Witness ==
    /\ status = "ready"
    /\ last.op = "construct"
    /\ this.readOnly = Undefined
    /\ this.api = HostApi
    /\ this.titlePlaceholder = DEFAULT_TITLE_PLACEHOLDER
    /\ this.messagePlaceholder = DEFAULT_MESSAGE_PLACEHOLDER
    /\ Stored.title = EmptyString

\* C5: every element render() returns has its title region and its message
\* region non-editable when the widget was constructed with readOnly = true
\* and editable when readOnly is false or not supplied; the two agree.
C5_ReadOnlyPropagation ==
    \A e \in 1..Len(elems) :
        LET title == elems[e].children[1]
            message == elems[e].children[2]
        IN /\ title.contentEditable = message.contentEditable
           /\ this.readOnly = Bool(TRUE) => title.contentEditable = "false"
           /\ this.readOnly \in {Bool(FALSE), Undefined} => title.contentEditable = "true"

\* an element rendered by a read-only widget
C5_Witness ==
    /\ last.op = "render"
    /\ this.readOnly = Bool(TRUE)
    /\ elems[last.ret].children[2].contentEditable = "false"

\* C6 as stated: each placeholder is the string config supplies when it
\* supplies one, and the default when config omits it.
C6_Original ==
    [][\A args \in WideArgs :
         Construct(args) /\ status' = "ready" =>
            LET title == Get(ConfigOf(args), "titlePlaceholder")
                message == Get(ConfigOf(args), "messagePlaceholder")
            IN /\ this'.titlePlaceholder =
                    IF IsString(title) THEN title ELSE DEFAULT_TITLE_PLACEHOLDER
               /\ this'.messagePlaceholder =
                    IF IsString(message) THEN message ELSE DEFAULT_MESSAGE_PLACEHOLDER]_vars

\* C6 amended: each placeholder is the string config supplies when that
\* string is not empty, and the default ("Title", "Message") when config
\* omits it or supplies the empty string; config = {} yields both defaults,
\* and each placeholder depends on its own config field only.
C6_Amended ==
    [][\A args \in WideArgs :
         Construct(args) /\ status' = "ready" =>
            LET title == Get(ConfigOf(args), "titlePlaceholder")
                message == Get(ConfigOf(args), "messagePlaceholder")
            IN /\ this'.titlePlaceholder =
                    IF title \in {Undefined, EmptyString}
                    THEN Str(<<"Title">>) ELSE title
               /\ this'.messagePlaceholder =
                    IF message \in {Undefined, EmptyString}
                    THEN Str(<<"Message">>) ELSE message]_vars

\* a widget with a title placeholder from config and the default message one
C6_Witness ==
    /\ status = "ready"
    /\ last.op = "construct"
    /\ this.titlePlaceholder = Str(<<"Custom">>)
    /\ this.messagePlaceholder = Str(<<"Message">>)

(***************************************************************************)
(* Properties of render() and save().                                      *)
(***************************************************************************)
\* the child of el that is the region of class cls
HasRegion(el, cls) == \E c \in 1..Len(el.children) : cls \in el.children[c].classList
RegionIndex(el, cls) ==
    CHOOSE c \in 1..Len(el.children) :
        /\ cls \in el.children[c].classList
        /\ \A b \in 1..(c - 1) : cls \notin el.children[b].classList
Region(el, cls) == el.children[RegionIndex(el, cls)]

\* el has a descendant carrying cls: a region, or an element inside a region
HasMarked(el, cls) ==
    \E c \in 1..Len(el.children) :
        \/ cls \in el.children[c].classList
        \/ \E j \in 1..Len(el.children[c].nodes) : el.children[c].nodes[j] = OpenNode(cls)

\* markup that is already in serialised form: no bare ampersand, every
\* element closed, no end tag without its element
Balance(s, j) ==
    Cardinality({h \in 1..j : s[h] \in OpenTags}) - Cardinality({h \in 1..j : s[h] = CloseTag})
WellFormed(s) ==
    /\ \A j \in 1..Len(s) : s[j] # "&" /\ Balance(s, j) >= 0
    /\ Balance(s, Len(s)) = 0

\* the markup of value v after el.innerHTML = v and a read of el.innerHTML
Reserialised(v) == Str(SerializeHTML(ParseHTML(JSString(v))))

\* C3 as stated, read for markup in serialised form and a host with its own
\* style tokens: a save of the element a render just returned, unmodified,
\* returns the record as it was, also when the title holds elements carrying
\* a marker class.
C3_Original ==
    [][/\ last.op = "render" /\ last'.op = "save" /\ last'.arg = last.ret
       /\ IsString(Stored.title) /\ WellFormed(Stored.title.s)
       /\ IsString(Stored.message) /\ WellFormed(Stored.message.s)
       /\ this.api = HostApi
       => /\ last'.out = "ok"
          /\ last'.ret = this.data.ref
          /\ Stored' = Stored]_vars

\* C3 amended: the round trip returns the original record whenever title and
\* message are markup in serialised form (what innerHTML reads back
\* unchanged) and nothing before the message region carries the message
\* marker class: no element in the title markup, and not the title region
\* through the host's input style token.  Elements carrying the title marker
\* in the title, or either marker in the message, do not break it.
C3_Amended ==
    [][/\ last.op = "render" /\ last'.op = "save" /\ last'.arg = last.ret
       /\ IsString(Stored.title) /\ WellFormed(Stored.title.s)
       /\ IsString(Stored.message) /\ WellFormed(Stored.message.s)
       /\ OpenTag(MessageClass) \notin Range(Stored.title.s)
       /\ this.api.props.styles.input # MessageClass
       => /\ last'.out = "ok"
          /\ last'.ret = this.data.ref
          /\ Stored' = Stored]_vars

\* a record whose title holds an element carrying the title marker and whose
\* message holds markup, after render and a save of the one element
C3_Witness ==
    /\ last.op = "save" /\ last.out = "ok"
    /\ Len(elems) = 1
    /\ this.api = HostApi
    /\ Stored.title = Str(<<OpenTag(TitleClass), "a", CloseTag>>)
    /\ Stored.message = Str(<<"a">>)

\* C4 as stated: save on an element with the title and message regions
\* stores the content of those two regions and returns the stored record.
C4_Original ==
    last.op = "save" /\ HasRegion(elems[last.arg], TitleClass)
                     /\ HasRegion(elems[last.arg], MessageClass) =>
        /\ last.out = "ok"
        /\ Stored.title = InnerHTML(Region(elems[last.arg], TitleClass))
        /\ Stored.message = InnerHTML(Region(elems[last.arg], MessageClass))
        /\ last.ret = this.data.ref
        /\ \A r \in returned : r = this.data.ref

\* no element carrying cls lies inside a region that comes before the region
\* of class cls
NothingBefore(el, cls) ==
    \A b \in 1..(RegionIndex(el, cls) - 1) : FirstOpen(el.children[b].nodes, cls) = 0

\* C4 amended: save on an element with the title and message regions stores
\* the content of the first descendant in document order carrying the title
\* marker and of the first carrying the message marker: the two regions
\* themselves unless an element carrying the same marker comes before the
\* region, such as an element inside the title region carrying the message
\* marker, whose content is then stored as the message.  It returns the
\* stored record itself, so every reference save has returned is the
\* widget's record as the latest save left it.
C4_Amended ==
    last.op = "save" /\ HasRegion(elems[last.arg], TitleClass)
                     /\ HasRegion(elems[last.arg], MessageClass) =>
        LET el == elems[last.arg]
        IN /\ last.out = "ok"
           /\ Stored.title = InnerHTML(QuerySelector(el, TitleClass))
           /\ Stored.message = InnerHTML(QuerySelector(el, MessageClass))
           /\ NothingBefore(el, TitleClass)
                => Stored.title = InnerHTML(Region(el, TitleClass))
           /\ NothingBefore(el, MessageClass)
                => Stored.message = InnerHTML(Region(el, MessageClass))
           /\ last.ret = this.data.ref
           /\ Len(objs) = 1
           /\ \A r \in returned : r = this.data.ref

\* a save of an edited element, after an earlier save
C4_Witness ==
    /\ last.op = "save" /\ last.out = "ok"
    /\ returned = {this.data.ref}
    /\ Len(elems[last.arg].children) = 2
    /\ Stored = [title |-> Str(<<"b">>), message |-> Str(<<"b">>)]

\* C7 as stated: a render returns a container with the title region then
\* the message region, each with the stored field as its content and its
\* placeholder as its hint.
C7_Original ==
    last.op = "render" =>
        LET el == elems[last.ret]
        IN /\ Len(el.children) = 2
           /\ TitleClass \in el.children[1].classList
           /\ MessageClass \in el.children[2].classList
           /\ InnerHTML(el.children[1]) = Stored.title
           /\ InnerHTML(el.children[2]) = Stored.message
           /\ el.children[1].placeholder = this.titlePlaceholder
           /\ el.children[2].placeholder = this.messagePlaceholder

\* C7 amended: as stated, except that the content of each region is the
\* stored field as parsed by the innerHTML assignment and serialised again:
\* equal to the stored field when that is markup in serialised form, as it
\* is once a save has succeeded, and otherwise its serialised form (a
\* constructed title "&" shows as "&amp;").
C7_Amended ==
    last.op = "render" =>
        LET el == elems[last.ret]
        IN /\ Len(el.children) = 2
           /\ TitleClass \in el.children[1].classList
           /\ MessageClass \in el.children[2].classList
           /\ MessageClass \notin el.children[1].classList
           /\ InnerHTML(el.children[1]) = Reserialised(Stored.title)
           /\ InnerHTML(el.children[2]) = Reserialised(Stored.message)
           /\ \A name \in FieldNames :
                returned # {} => IsString(Stored[name]) /\ WellFormed(Stored[name].s)
           /\ IsString(Stored.title) /\ WellFormed(Stored.title.s)
                => InnerHTML(el.children[1]) = Stored.title
           /\ IsString(Stored.message) /\ WellFormed(Stored.message.s)
                => InnerHTML(el.children[2]) = Stored.message
           /\ el.children[1].placeholder = this.titlePlaceholder
           /\ el.children[2].placeholder = this.messagePlaceholder

\* a render after a save of edited content
C7_Witness ==
    /\ last.op = "render"
    /\ returned # {}
    /\ Stored.title = Str(<<"b">>)
    /\ this.titlePlaceholder = Str(<<"Custom">>)
    /\ InnerHTML(elems[last.ret].children[1]) = Str(<<"b">>)

\* C8: render changes nothing of the widget and returns a new element
\* beside the ones alive; save changes nothing but the two fields of the
\* stored record; two renders in a row return two distinct elements that
\* are equal in classes, placeholders, content and editability; a change to
\* one element leaves every other element as it was.
C8_Frame ==
    [][/\ last'.op = "render" =>
            /\ status' = status /\ this' = this /\ objs' = objs /\ returned' = returned
            /\ Len(elems') = Len(elems) + 1
            /\ last'.ret = Len(elems')
            /\ \A e \in 1..Len(elems) : elems'[e] = elems[e]
       /\ last'.op = "save" =>
            /\ status' = status /\ this' = this /\ elems' = elems
            /\ Len(objs') = Len(objs)
            /\ DOMAIN Stored' = FieldNames
       /\ last.op = "render" /\ last'.op = "render" =>
            /\ last'.ret # last.ret
            /\ elems'[last'.ret] = elems[last.ret]
       /\ last'.op \in {"edit", "detach"} =>
            /\ Len(elems') = Len(elems)
            /\ Cardinality({e \in 1..Len(elems) : elems'[e] # elems[e]}) = 1
            /\ status' = status /\ this' = this /\ objs' = objs]_vars

\* two elements from two renders, the first edited since, the second as rendered
C8_Witness ==
    /\ Len(elems) = 2
    /\ last.op = "edit"
    /\ returned = {}
    /\ elems[1].children[1].nodes = <<TextNode("b")>>
    /\ elems[2] = RenderElement(this, Stored)

\* C9: a save faults exactly when the element lacks a descendant carrying
\* the title marker or lacks one carrying the message marker; a faulting
\* save returns no record.
C9_SaveFaults ==
    last.op = "save" =>
        /\ last.out = "TypeError" <=>
              ~(HasMarked(elems[last.arg], TitleClass) /\ HasMarked(elems[last.arg], MessageClass))
        /\ last.out = "TypeError" => last.ret = 0
        /\ last.out = "ok" => last.ret = this.data.ref
        /\ last.out \in {"ok", "TypeError"}

\* a save that faulted on an element with its title region but no message region
C9_Witness ==
    /\ last.op = "save" /\ last.out = "TypeError"
    /\ Len(elems[last.arg].children) = 1
    /\ HasMarked(elems[last.arg], TitleClass)

\* C10: a save that faults leaves the stored record, and the rest of the
\* widget, as it was before the call.
C10_NoPartialUpdate ==
    [][last'.op = "save" /\ last'.out = "TypeError" =>
          objs' = objs /\ this' = this /\ returned' = returned /\ elems' = elems]_vars

\* a faulted save on an element whose title region holds new content and
\* whose message region is gone; the stored title is still the old one
C10_Witness ==
    /\ last.op = "save" /\ last.out = "TypeError"
    /\ HasRegion(elems[last.arg], TitleClass)
    /\ ~HasMarked(elems[last.arg], MessageClass)
    /\ InnerHTML(Region(elems[last.arg], TitleClass)) = Str(<<"b">>)
    /\ Stored.title # Str(<<"b">>)

====
